---- MODULE Spec2Model ----
(***************************************************************************)
(* A model of pvops/timeseries/preprocess.py: the per-site preprocessing   *)
(* transforms of production data frames and the right-censoring            *)
(* reconstruction of event logs.                                           *)
(*                                                                         *)
(* A data frame is a sequence of records (its rows, in row order).  A cell *)
(* that holds one value v is the sequence <<v>>, a missing cell (NaN, NaT, *)
(* None) is the empty sequence.  Each function of the source has its own   *)
(* specification: SpecCensor, SpecNorm, SpecIrr, SpecClip.                 *)
(***************************************************************************)
EXTENDS Integers, Sequences, FiniteSets, TLC

VARIABLES
    pc,                   \* position of the running function
    result,               \* "none" | "returned" | "error"
    \* identify_right_censored_data
    om_df,                \* the event data frame (input)
    first_fails_df,       \* function (site, group) -> row
    last_fails_df,        \* function site -> row
    unique_sites,         \* sequence of sites, order of first appearance
    unique_group_bys,     \* sequence of groups, order of first appearance
    all_sites_assets_df,  \* sequence of rows, one per index entry
    k,                    \* position of the prefill loop in unique_sites
    censored,             \* the data frame returned
    \* the per-site transforms
    prod_in,              \* the caller's production data frame
    meta_df,              \* the site metadata data frame
    prod_df,              \* the working copy of the production data frame
    todo,                 \* sites of individual_sites not yet iterated
    returned,             \* the data frame returned
    \* prod_irradiance_filter
    drop,
    irradiance_type,
    csi_max,              \* in tenths
    clearsky,             \* the clearsky model: (location, time) -> irradiance
    existing_clearsky,    \* the cell of the caller's clearsky_irr column, if any
    has_clearsky,         \* prod_df has the clearsky_irr column
    mask_series,
    returned_mask,
    \* prod_inverter_clipping_filter
    model,
    kwargs,
    calls                 \* the calls made to pvanalytics.features.clipping

censorVars == <<om_df, first_fails_df, last_fails_df, unique_sites,
                unique_group_bys, all_sites_assets_df, k, censored>>
frameVars == <<prod_in, meta_df, prod_df, todo, returned>>
irrVars == <<drop, irradiance_type, csi_max, clearsky, existing_clearsky, has_clearsky,
             mask_series, returned_mask>>
clipVars == <<model, kwargs, calls>>

vars == <<pc, result, censorVars, frameVars, irrVars, clipVars>>

----------------------------------------------------------------------------
(* Bounds and input domains *)

MaxEvents == 3

Null == <<>>
IsNull(c) == c = Null

EventSites == {"A", "B"}
EventGroups == {"G1", "G2"}
EventTimes == {Null, <<"t1">>, <<"t2">>}
EventAttrs == {Null, <<"x">>}

EventRows == [site : EventSites, group : EventGroups,
              time : EventTimes, attr : EventAttrs]

RECURSIVE SeqsUpTo(_, _)
SeqsUpTo(S, n) ==
    IF n = 0 THEN {<<>>}
    ELSE LET shorter == SeqsUpTo(S, n - 1)
         IN  shorter \cup {Append(q, x) : q \in {r \in shorter : Len(r) = n - 1}, x \in S}

----------------------------------------------------------------------------
(* pandas helpers used by identify_right_censored_data *)

\* Series.unique(): the distinct values in order of first appearance
RECURSIVE Unique(_)
Unique(s) ==
    IF s = <<>> THEN <<>>
    ELSE LET init == Unique(SubSeq(s, 1, Len(s) - 1))
             last == s[Len(s)]
         IN  IF \E i \in 1..Len(init) : init[i] = last THEN init
             ELSE Append(init, last)

Column(df, col) == [i \in 1..Len(df) |-> df[i][col]]

\* GroupBy.first() on one column: the first entry that is not missing
RECURSIVE FirstValid(_)
FirstValid(cells) ==
    IF cells = <<>> THEN Null
    ELSE IF ~IsNull(Head(cells)) THEN Head(cells)
    ELSE FirstValid(Tail(cells))

\* GroupBy.last() on one column: the last entry that is not missing
RECURSIVE LastValid(_)
LastValid(cells) ==
    IF cells = <<>> THEN Null
    ELSE IF ~IsNull(cells[Len(cells)]) THEN cells[Len(cells)]
    ELSE LastValid(SubSeq(cells, 1, Len(cells) - 1))

PairRows(df, s, g) == SelectSeq(df, LAMBDA r : r.site = s /\ r.group = g)
SiteRows(df, s) == SelectSeq(df, LAMBDA r : r.site = s)

\* om_df.groupby([site, group_by]).first(), with was_observed = True
GroupFirst(df) ==
    LET keys == {<<df[i].site, df[i].group>> : i \in 1..Len(df)}
    IN  [p \in keys |->
            [time |-> FirstValid(Column(PairRows(df, p[1], p[2]), "time")),
             attr |-> FirstValid(Column(PairRows(df, p[1], p[2]), "attr")),
             was_observed |-> <<TRUE>>]]

\* om_df.groupby(site).last().drop(columns=[group_by]), with was_observed = False
GroupLast(df) ==
    LET keys == {df[i].site : i \in 1..Len(df)}
    IN  [s \in keys |->
            [time |-> LastValid(Column(SiteRows(df, s), "time")),
             attr |-> LastValid(Column(SiteRows(df, s), "attr")),
             was_observed |-> <<FALSE>>]]

\* the index built by pairing sites and groups position by position (zip)
ZipIndex(sites, groups) ==
    [j \in 1..(IF Len(sites) < Len(groups) THEN Len(sites) ELSE Len(groups)) |->
        <<sites[j], groups[j]>>]

\* pd.MultiIndex.from_product([sites, groups]): sites outer, groups inner
RECURSIVE FromProduct(_, _)
FromProduct(sites, groups) ==
    IF sites = <<>> THEN <<>>
    ELSE [j \in 1..Len(groups) |-> <<Head(sites), groups[j]>>]
         \o FromProduct(Tail(sites), groups)

\* pd.DataFrame(index=..., columns=...): every cell missing
EmptyFrame(index) ==
    [i \in 1..Len(index) |->
        [site |-> index[i][1], group |-> index[i][2],
         time |-> Null, attr |-> Null, was_observed |-> Null]]

\* df.loc[(unique_site, slice(None)), :] = row.values
FillSite(df, s, row) ==
    [i \in 1..Len(df) |->
        IF df[i].site = s
        THEN [df[i] EXCEPT !.time = row.time, !.attr = row.attr,
                           !.was_observed = row.was_observed]
        ELSE df[i]]

\* df.loc[first.index] = first
Overwrite(df, first) ==
    [i \in 1..Len(df) |->
        IF <<df[i].site, df[i].group>> \in DOMAIN first
        THEN LET row == first[<<df[i].site, df[i].group>>]
             IN  [df[i] EXCEPT !.time = row.time, !.attr = row.attr,
                               !.was_observed = row.was_observed]
        ELSE df[i]]

----------------------------------------------------------------------------
(* identify_right_censored_data *)

CensorIdle ==
    /\ om_df = <<>>
    /\ first_fails_df = <<>>
    /\ last_fails_df = <<>>
    /\ unique_sites = <<>>
    /\ unique_group_bys = <<>>
    /\ all_sites_assets_df = <<>>
    /\ k = 1
    /\ censored = <<>>

FrameIdle ==
    /\ prod_in = <<>>
    /\ meta_df = <<>>
    /\ prod_df = <<>>
    /\ todo = {}
    /\ returned = <<>>

IrrIdle ==
    /\ drop = TRUE
    /\ irradiance_type = "ghi"
    /\ csi_max = 11
    /\ clearsky = <<>>
    /\ existing_clearsky = Null
    /\ has_clearsky = FALSE
    /\ mask_series = <<>>
    /\ returned_mask = <<>>

ClipIdle ==
    /\ model = "geometric"
    /\ kwargs = <<>>
    /\ calls = {}

InitCensor ==
    /\ om_df \in SeqsUpTo(EventRows, MaxEvents)
    /\ pc = "first"
    /\ result = "none"
    /\ FrameIdle /\ IrrIdle /\ ClipIdle
    /\ first_fails_df = <<>>
    /\ last_fails_df = <<>>
    /\ unique_sites = <<>>
    /\ unique_group_bys = <<>>
    /\ all_sites_assets_df = <<>>
    /\ k = 1
    /\ censored = <<>>

CensorFirst ==
    /\ pc = "first"
    /\ first_fails_df' = GroupFirst(om_df)
    /\ pc' = "last"
    /\ UNCHANGED <<frameVars, irrVars, clipVars,
                   result, om_df, last_fails_df, unique_sites, unique_group_bys,
                   all_sites_assets_df, k, censored>>

CensorLast ==
    /\ pc = "last"
    /\ last_fails_df' = GroupLast(om_df)
    /\ pc' = "index"
    /\ UNCHANGED <<frameVars, irrVars, clipVars,
                   result, om_df, first_fails_df, unique_sites, unique_group_bys,
                   all_sites_assets_df, k, censored>>

CensorIndex ==
    /\ pc = "index"
    /\ unique_sites' = Unique(Column(om_df, "site"))
    /\ unique_group_bys' = Unique(Column(om_df, "group"))
    /\ all_sites_assets_df' = EmptyFrame(FromProduct(unique_sites', unique_group_bys'))
    /\ k' = 1
    /\ pc' = "prefill"
    /\ UNCHANGED <<frameVars, irrVars, clipVars,
                   result, om_df, first_fails_df, last_fails_df, censored>>

CensorPrefill ==
    /\ pc = "prefill"
    /\ k <= Len(unique_sites)
    /\ all_sites_assets_df' =
           FillSite(all_sites_assets_df, unique_sites[k], last_fails_df[unique_sites[k]])
    /\ k' = k + 1
    /\ UNCHANGED <<frameVars, irrVars, clipVars,
                   pc, result, om_df, first_fails_df, last_fails_df, unique_sites,
                   unique_group_bys, censored>>

CensorOverwrite ==
    /\ pc = "prefill"
    /\ k > Len(unique_sites)
    /\ all_sites_assets_df' = Overwrite(all_sites_assets_df, first_fails_df)
    /\ pc' = "astype"
    /\ UNCHANGED <<frameVars, irrVars, clipVars,
                   result, om_df, first_fails_df, last_fails_df, unique_sites,
                   unique_group_bys, k, censored>>

CensorReturn ==
    /\ pc = "astype"
    /\ censored' = all_sites_assets_df
    /\ result' = "returned"
    /\ pc' = "done"
    /\ UNCHANGED <<frameVars, irrVars, clipVars,
                   om_df, first_fails_df, last_fails_df, unique_sites,
                   unique_group_bys, all_sites_assets_df, k>>

NextCensor ==
    \/ CensorFirst
    \/ CensorLast
    \/ CensorIndex
    \/ CensorPrefill
    \/ CensorOverwrite
    \/ CensorReturn

SpecCensor == InitCensor /\ [][NextCensor]_vars

----------------------------------------------------------------------------
(* Claims about identify_right_censored_data *)

InputSites == {om_df[i].site : i \in 1..Len(om_df)}
InputGroups == {om_df[i].group : i \in 1..Len(om_df)}
OutputPairs == {<<censored[i].site, censored[i].group>> : i \in 1..Len(censored)}

\* C1: the (site, group) index pairs of the returned frame are exactly the
\* Cartesian product of the distinct sites and the distinct groups of the
\* input, and every pair appears exactly once.
C1_CartesianIndex ==
    result = "returned" =>
        /\ OutputPairs = InputSites \X InputGroups
        /\ \A i, j \in 1..Len(censored) :
               (censored[i].site = censored[j].site
                /\ censored[i].group = censored[j].group) => i = j

\* a returned frame with two sites, two groups and a pair never jointly observed
C1_Witness ==
    /\ result = "returned"
    /\ Cardinality(InputSites) = 2
    /\ Cardinality(InputGroups) = 2
    /\ \E p \in OutputPairs : PairRows(om_df, p[1], p[2]) = <<>>

\* C2: an output pair that occurs in the input has was_observed = true and
\* the event time of its first input row; a pair that does not occur has
\* was_observed = false and the event time of the last input row of its site.
C2_FirstRowTimeOrSiteLast ==
    result = "returned" =>
        \A i \in 1..Len(censored) :
            LET r == censored[i]
                own == PairRows(om_df, r.site, r.group)
                ofSite == SiteRows(om_df, r.site)
            IN  IF own # <<>>
                THEN r.was_observed = <<TRUE>> /\ r.time = own[1].time
                ELSE r.was_observed = <<FALSE>> /\ r.time = ofSite[Len(ofSite)].time

\* C9: every output row is populated from one single input row: the first
\* row of an observed pair, the last row of the site of an unobserved pair,
\* also when cells of the input are missing.
C9_RowFromSingleInputRow ==
    result = "returned" =>
        \A i \in 1..Len(censored) :
            LET r == censored[i]
                own == PairRows(om_df, r.site, r.group)
                ofSite == SiteRows(om_df, r.site)
                src == IF own # <<>> THEN own[1] ELSE ofSite[Len(ofSite)]
            IN  r.time = src.time /\ r.attr = src.attr

----------------------------------------------------------------------------
(* normalize_production_by_capacity *)

MaxProd == 2
MaxMeta == 2

ProdSites == {"A", "B"}
MetaSites == {"A", "B"}
\* powers are multiples of every capacity, so that the quotient is exact
Powers == {6, 12}
Capacities == {2, 3}

NormProdRows == [site : ProdSites, power : Powers]
NormMetaRows == [site : MetaSites, dcsize : Capacities]

\* set(meta_df[siteid].tolist())
IndividualSites(meta) == {meta[i].site : i \in 1..Len(meta)}

\* the dcsize of the last metadata row of the site
LastCapacity(meta, site) ==
    LET rows == SelectSeq(meta, LAMBDA r : r.site = site)
    IN  rows[Len(rows)].dcsize

\* meta_df.loc[site_meta_mask, dcsize_name].iloc[0]
FirstCapacity(meta, site) ==
    LET rows == SelectSeq(meta, LAMBDA r : r.site = site)
    IN  rows[1].dcsize

\* prod_df.loc[site_prod_mask, output_name] = power / capacity
NormalizeSite(df, site, capacity) ==
    [i \in 1..Len(df) |->
        IF df[i].site = site
        THEN [df[i] EXCEPT !.out = <<df[i].power \div capacity>>]
        ELSE df[i]]

InitNorm ==
    /\ prod_in \in SeqsUpTo(NormProdRows, MaxProd)
    /\ meta_df \in SeqsUpTo(NormMetaRows, MaxMeta)
    /\ prod_df = <<>>
    /\ todo = {}
    /\ returned = <<>>
    /\ pc = "copy"
    /\ result = "none"
    /\ CensorIdle /\ IrrIdle /\ ClipIdle

\* the copies and the set of sites; the output column does not exist yet
NormStart ==
    /\ pc = "copy"
    /\ prod_df' = [i \in 1..Len(prod_in) |->
                      [site |-> prod_in[i].site, power |-> prod_in[i].power,
                       out |-> Null]]
    /\ todo' = IndividualSites(meta_df)
    /\ pc' = "loop"
    /\ UNCHANGED <<result, prod_in, meta_df, returned, censorVars, irrVars, clipVars>>

\* one iteration of the loop over the set of sites, in any order
NormSite(site) ==
    /\ pc = "loop"
    /\ site \in todo
    /\ prod_df' = NormalizeSite(prod_df, site, FirstCapacity(meta_df, site))
    /\ todo' = todo \ {site}
    /\ UNCHANGED <<pc, result, prod_in, meta_df, returned, censorVars, irrVars, clipVars>>

NormReturn ==
    /\ pc = "loop"
    /\ todo = {}
    /\ returned' = prod_df
    /\ result' = "returned"
    /\ pc' = "done"
    /\ UNCHANGED <<prod_in, meta_df, prod_df, todo, censorVars, irrVars, clipVars>>

NextNorm ==
    \/ NormStart
    \/ \E site \in MetaSites : NormSite(site)
    \/ NormReturn

SpecNorm == InitNorm /\ [][NextNorm]_vars

----------------------------------------------------------------------------
(* Claims about normalize_production_by_capacity *)

HasMetadata(site) == \E j \in 1..Len(meta_df) : meta_df[j].site = site

\* C5: when a production row's site has no metadata row the call ends in a
\* lookup error; it never returns a data frame.
C5_MissingMetadataFails ==
    (\E i \in 1..Len(prod_in) : ~HasMetadata(prod_in[i].site)) => result # "returned"

\* C6: in the returned frame the row set and the input columns are those of
\* the input, and the output column of every row whose site is in the
\* metadata is the row's production value divided by the DC capacity of the
\* first metadata row of the row's own site.
C6_OwnSiteCapacity ==
    result = "returned" =>
        /\ Len(returned) = Len(prod_in)
        /\ \A i \in 1..Len(returned) :
            /\ returned[i].site = prod_in[i].site
            /\ returned[i].power = prod_in[i].power
            /\ \A j \in 1..Len(meta_df) :
                  (/\ meta_df[j].site = prod_in[i].site
                   /\ \A h \in 1..(j - 1) : meta_df[h].site # prod_in[i].site)
                  => returned[i].out = <<prod_in[i].power \div meta_df[j].dcsize>>

\* a returned frame with rows of two sites whose capacities differ
C6_Witness ==
    /\ result = "returned"
    /\ \E i, j \in 1..Len(returned) :
          /\ returned[i].site # returned[j].site
          /\ HasMetadata(returned[i].site) /\ HasMetadata(returned[j].site)
          /\ returned[i].power = returned[j].power
          /\ returned[i].out # returned[j].out
          /\ ~IsNull(returned[i].out) /\ ~IsNull(returned[j].out)

----------------------------------------------------------------------------
(* prod_irradiance_filter *)

Timestamps == {"T1", "T2"}
Irradiances == {100, 240}
Locations == {"L1", "L2"}
ClearskyValues == {100, 200}
IrradianceTypes == {"ghi", "dni", "poa", "xyz"}
CsiMaxTenths == {5, 11}

IrrProdRows == [site : ProdSites, ts : Timestamps, irr : Irradiances]
IrrMetaRows == [site : MetaSites, loc : Locations]

\* one row per (site, timestamp); the frame is indexed by its timestamps
UniqueKeys(df) ==
    \A i, j \in 1..Len(df) :
        (df[i].site = df[j].site /\ df[i].ts = df[j].ts) => i = j

\* meta_df.loc[site_meta_mask, latitude / longitude].tolist()[0]
FirstLocation(meta, site) ==
    LET rows == SelectSeq(meta, LAMBDA r : r.site = site)
    IN  rows[1].loc

\* TimezoneFinder().timezone_at(lng, lat): the zone belongs to the location
TimezoneAt(loc) == <<"tz", loc>>

\* pd.DatetimeIndex(data=prod_times, tz=loc.tz): wall times with a zone
Localize(times, tz) == {[wall |-> t, tz |-> tz] : t \in times}

\* cs.index.tz_localize(None): the wall time without the zone
NaiveTime(t) == t.wall

\* loc.get_clearsky(times)[irradiance_type] with its index made naive:
\* a series indexed by the naive times of this site's rows
SiteClearsky(df, meta, site) ==
    LET loc == FirstLocation(meta, site)
        prod_times == {df[i].ts : i \in {h \in 1..Len(df) : df[h].site = site}}
        times == Localize(prod_times, TimezoneAt(loc))
    IN  [t \in {NaiveTime(a) : a \in times} |-> clearsky[<<loc, t>>]]

\* prod_df[clearsky_irr_name] = cs[irradiance_type]: the whole column is
\* replaced by the series aligned on the index of prod_df; an index label
\* the series does not have gets a missing value
AssignColumn(df, site, cs) ==
    [i \in 1..Len(df) |->
        [df[i] EXCEPT !.cs = IF df[i].ts \in DOMAIN cs THEN <<cs[df[i].ts]>> ELSE Null]]

\* pvanalytics.quality.irradiance.clearsky_limits: True for each value where
\* the clearsky index is less than or equal to csi_max
ClearskyLimits(irr, cs, max) ==
    IF IsNull(cs) THEN FALSE ELSE irr * 10 <= max * cs[1]

\* prod_df[prod_df['mask'] == False] followed by drop(columns=['mask'])
DropMasked(df) ==
    LET kept == SelectSeq(df, LAMBDA r : r.mask = <<FALSE>>)
    IN  [i \in 1..Len(kept) |->
            [site |-> kept[i].site, ts |-> kept[i].ts, irr |-> kept[i].irr,
             cs |-> kept[i].cs]]

InitIrr ==
    /\ prod_in \in {df \in SeqsUpTo(IrrProdRows, MaxProd) : UniqueKeys(df)}
    /\ meta_df \in SeqsUpTo(IrrMetaRows, MaxMeta)
    /\ drop \in BOOLEAN
    /\ irradiance_type \in IrradianceTypes
    /\ csi_max \in CsiMaxTenths
    /\ clearsky \in [Locations \X Timestamps -> ClearskyValues]
    /\ existing_clearsky \in {Null} \cup {<<v>> : v \in ClearskyValues}
    /\ has_clearsky = ~IsNull(existing_clearsky)
    /\ prod_df = <<>>
    /\ todo = {}
    /\ returned = <<>>
    /\ mask_series = <<>>
    /\ returned_mask = <<>>
    /\ pc = "copy"
    /\ result = "none"
    /\ CensorIdle /\ ClipIdle

IrrStart ==
    /\ pc = "copy"
    /\ prod_df' = [i \in 1..Len(prod_in) |->
                      [site |-> prod_in[i].site, ts |-> prod_in[i].ts,
                       irr |-> prod_in[i].irr, cs |-> existing_clearsky]]
    /\ todo' = IndividualSites(meta_df)
    /\ pc' = "loop"
    /\ UNCHANGED <<result, prod_in, meta_df, returned, irrVars, censorVars, clipVars>>

\* an iteration with irradiance_type == 'poa'
IrrSitePoa(site) ==
    /\ pc = "loop"
    /\ site \in todo
    /\ irradiance_type = "poa"
    /\ result' = "error"
    /\ pc' = "done"
    /\ UNCHANGED <<frameVars, irrVars, censorVars, clipVars>>

\* an iteration with a supported irradiance_type
IrrSiteClearsky(site) ==
    /\ pc = "loop"
    /\ site \in todo
    /\ irradiance_type \in {"dni", "ghi", "dhi"}
    /\ prod_df' = AssignColumn(prod_df, site, SiteClearsky(prod_df, meta_df, site))
    /\ has_clearsky' = TRUE
    /\ todo' = todo \ {site}
    /\ UNCHANGED <<pc, result, prod_in, meta_df, returned, drop, irradiance_type,
                   csi_max, clearsky, existing_clearsky, mask_series, returned_mask,
                   censorVars, clipVars>>

\* an iteration with any other irradiance_type
IrrSiteInvalid(site) ==
    /\ pc = "loop"
    /\ site \in todo
    /\ irradiance_type \notin {"poa", "dni", "ghi", "dhi"}
    /\ result' = "error"
    /\ pc' = "done"
    /\ UNCHANGED <<frameVars, irrVars, censorVars, clipVars>>

\* after the loop: prod_df[clearsky_irr_name] of a frame without that column
IrrNoColumn ==
    /\ pc = "loop"
    /\ todo = {}
    /\ ~has_clearsky
    /\ result' = "error"
    /\ pc' = "done"
    /\ UNCHANGED <<frameVars, irrVars, censorVars, clipVars>>

\* after the loop: the mask over the whole frame, stored as a column
IrrMask ==
    /\ pc = "loop"
    /\ todo = {}
    /\ has_clearsky
    /\ mask_series' = [i \in 1..Len(prod_df) |->
                          ClearskyLimits(prod_df[i].irr, prod_df[i].cs, csi_max)]
    /\ prod_df' = [i \in 1..Len(prod_df) |->
                      [site |-> prod_df[i].site, ts |-> prod_df[i].ts,
                       irr |-> prod_df[i].irr, cs |-> prod_df[i].cs,
                       mask |-> <<mask_series'[i]>>]]
    /\ pc' = "branch"
    /\ UNCHANGED <<result, prod_in, meta_df, todo, returned, drop, irradiance_type,
                   csi_max, clearsky, existing_clearsky, has_clearsky, returned_mask,
                   censorVars, clipVars>>

IrrReturnFull ==
    /\ pc = "branch"
    /\ ~drop
    /\ returned' = prod_df
    /\ returned_mask' = mask_series
    /\ result' = "returned"
    /\ pc' = "done"
    /\ UNCHANGED <<prod_in, meta_df, prod_df, todo, drop, irradiance_type, csi_max,
                   clearsky, existing_clearsky, has_clearsky, mask_series,
                   censorVars, clipVars>>

IrrReturnDropped ==
    /\ pc = "branch"
    /\ drop
    /\ returned' = DropMasked(prod_df)
    /\ returned_mask' = mask_series
    /\ result' = "returned"
    /\ pc' = "done"
    /\ UNCHANGED <<prod_in, meta_df, prod_df, todo, drop, irradiance_type, csi_max,
                   clearsky, existing_clearsky, has_clearsky, mask_series,
                   censorVars, clipVars>>

NextIrr ==
    \/ IrrStart
    \/ \E site \in MetaSites : IrrSitePoa(site)
    \/ \E site \in MetaSites : IrrSiteClearsky(site)
    \/ \E site \in MetaSites : IrrSiteInvalid(site)
    \/ IrrNoColumn
    \/ IrrMask
    \/ IrrReturnFull
    \/ IrrReturnDropped

SpecIrr == InitIrr /\ [][NextIrr]_vars

----------------------------------------------------------------------------
(* Claims about prod_irradiance_filter *)

\* the frame a call with drop = false returns: the whole frame with its mask
\* column; the rows of it that the mask marks as within the clearsky limit
\* (mask true: clearsky index <= csi_max), without the mask column
RowsWithinLimit(df) ==
    LET kept == SelectSeq(df, LAMBDA r : r.mask = <<TRUE>>)
    IN  [i \in 1..Len(kept) |->
            [site |-> kept[i].site, ts |-> kept[i].ts, irr |-> kept[i].irr,
             cs |-> kept[i].cs]]

\* C3: the mask returned with drop = true is the mask of the full frame, one
\* entry per input row, and the rows returned with drop = true are the rows
\* of the full frame (the drop = false result) without the rows the mask
\* marks as exceeding the clearsky-index threshold, the mask column removed.
C3_DropEqualsManualFilter ==
    (result = "returned" /\ drop) =>
        /\ returned_mask = mask_series
        /\ Len(returned_mask) = Len(prod_in)
        /\ returned = RowsWithinLimit(prod_df)

\* C4: a call with irradiance_type 'poa' or a value outside
\* {ghi, dni, dhi, poa} ends in an error and returns no data frame.
C4_UnsupportedTypeFails ==
    irradiance_type \notin {"ghi", "dni", "dhi"} => result # "returned"

\* C8: after the loop over the sites, every production row whose site is in
\* the metadata holds the clearsky value of its own site's location and its
\* own timestamp.
C8_OwnSiteClearsky ==
    (pc = "branch" /\ irradiance_type \in {"ghi", "dni", "dhi"}) =>
        \A i \in 1..Len(prod_df) :
            \A j \in 1..Len(meta_df) :
                (/\ meta_df[j].site = prod_df[i].site
                 /\ \A h \in 1..(j - 1) : meta_df[h].site # prod_df[i].site)
                => prod_df[i].cs = <<clearsky[<<meta_df[j].loc, prod_df[i].ts>>]>>

----------------------------------------------------------------------------
(* prod_inverter_clipping_filter *)

ClipModels == {"geometric", "threshold", "levels", "xyz"}

\* the keyword parameters each branch reads
ModelParams(m) ==
    CASE m = "geometric" -> {"window", "slope_max", "freq", "tracking"}
      [] m = "threshold" -> {"slope_max", "power_min", "power_quantile", "freq"}
      [] m = "levels" -> {"window", "fraction_in_window", "rtol", "levels"}
      [] OTHER -> {}

\* a keyword the caller left out, and the values a caller may supply
Unset == "unset"
Supplied(p) == IF p = "tracking" THEN {"False", "True"} ELSE {"0", "7"}

\* kwargs.get(name): None when the keyword is absent
KwGet(kw, p) == IF kw[p] = Unset THEN "None" ELSE kw[p]

\* Python truth value of the values above
Falsy(v) == v \in {"None", "0", "False"}

\* v or default
OrDefault(v, default) == IF Falsy(v) THEN default ELSE v

GeometricArgs(kw) ==
    [window |-> KwGet(kw, "window"),
     slope_max |-> OrDefault(KwGet(kw, "slope_max"), "0.2"),
     freq |-> KwGet(kw, "freq"),
     tracking |-> OrDefault(KwGet(kw, "tracking"), "False")]

ThresholdArgs(kw) ==
    [slope_max |-> OrDefault(KwGet(kw, "slope_max"), "0.0035"),
     power_min |-> OrDefault(KwGet(kw, "power_min"), "0.75"),
     power_quantile |-> OrDefault(KwGet(kw, "power_quantile"), "0.995"),
     freq |-> KwGet(kw, "freq")]

LevelsArgs(kw) ==
    [window |-> OrDefault(KwGet(kw, "window"), "4"),
     fraction_in_window |-> OrDefault(KwGet(kw, "fraction_in_window"), "0.75"),
     rtol |-> OrDefault(KwGet(kw, "rtol"), "0.005"),
     levels |-> OrDefault(KwGet(kw, "levels"), "2")]

ClipProdRows == [site : ProdSites]
ClipMetaRows == [site : MetaSites]

\* prod_df.loc[site_prod_mask, powerprod]: the rows of the site
AcPower(df, site) == {i \in 1..Len(df) : df[i].site = site}

\* prod_df.loc[site_prod_mask, "mask"] = the detector's result
WriteMask(df, site, clipped) ==
    [i \in 1..Len(df) |->
        IF df[i].site = site THEN [df[i] EXCEPT !.mask = <<clipped>>] ELSE df[i]]

InitClip ==
    /\ prod_in \in SeqsUpTo(ClipProdRows, MaxProd)
    /\ meta_df \in SeqsUpTo(ClipMetaRows, MaxMeta)
    /\ model \in ClipModels
    /\ kwargs \in [ModelParams(model) -> {Unset, "0", "7", "False", "True"}]
    /\ \A p \in DOMAIN kwargs : kwargs[p] \in {Unset} \cup Supplied(p)
    /\ calls = {}
    /\ prod_df = <<>>
    /\ todo = {}
    /\ returned = <<>>
    /\ pc = "copy"
    /\ result = "none"
    /\ CensorIdle /\ IrrIdle

ClipStart ==
    /\ pc = "copy"
    /\ prod_df' = [i \in 1..Len(prod_in) |-> [site |-> prod_in[i].site, mask |-> Null]]
    /\ todo' = IndividualSites(meta_df)
    /\ pc' = "loop"
    /\ UNCHANGED <<result, prod_in, meta_df, returned, clipVars, censorVars, irrVars>>

\* len(ac_power) == 0: continue
ClipSiteSkip(site) ==
    /\ pc = "loop"
    /\ site \in todo
    /\ AcPower(prod_df, site) = {}
    /\ todo' = todo \ {site}
    /\ UNCHANGED <<pc, result, prod_in, meta_df, prod_df, returned, clipVars,
                   censorVars, irrVars>>

\* a call of the detector fn; its result is any boolean
ClipDetect(site, fn, args) ==
    /\ calls' = calls \cup {[site |-> site, fn |-> fn, args |-> args]}
    /\ \E clipped \in BOOLEAN : prod_df' = WriteMask(prod_df, site, clipped)
    /\ todo' = todo \ {site}
    /\ UNCHANGED <<pc, result, prod_in, meta_df, returned, model, kwargs,
                   censorVars, irrVars>>

ClipSiteGeometric(site) ==
    /\ pc = "loop"
    /\ site \in todo
    /\ AcPower(prod_df, site) # {}
    /\ model = "geometric"
    /\ ClipDetect(site, "geometric", GeometricArgs(kwargs))

ClipSiteThreshold(site) ==
    /\ pc = "loop"
    /\ site \in todo
    /\ AcPower(prod_df, site) # {}
    /\ model = "threshold"
    /\ ClipDetect(site, "threshold", ThresholdArgs(kwargs))

ClipSiteLevels(site) ==
    /\ pc = "loop"
    /\ site \in todo
    /\ AcPower(prod_df, site) # {}
    /\ model = "levels"
    /\ ClipDetect(site, "levels", LevelsArgs(kwargs))

ClipSiteInvalid(site) ==
    /\ pc = "loop"
    /\ site \in todo
    /\ AcPower(prod_df, site) # {}
    /\ model \notin {"geometric", "threshold", "levels"}
    /\ result' = "error"
    /\ pc' = "done"
    /\ UNCHANGED <<frameVars, clipVars, censorVars, irrVars>>

ClipReturn ==
    /\ pc = "loop"
    /\ todo = {}
    /\ returned' = prod_df
    /\ result' = "returned"
    /\ pc' = "done"
    /\ UNCHANGED <<prod_in, meta_df, prod_df, todo, clipVars, censorVars, irrVars>>

NextClip ==
    \/ ClipStart
    \/ \E site \in MetaSites : ClipSiteSkip(site)
    \/ \E site \in MetaSites : ClipSiteGeometric(site)
    \/ \E site \in MetaSites : ClipSiteThreshold(site)
    \/ \E site \in MetaSites : ClipSiteLevels(site)
    \/ \E site \in MetaSites : ClipSiteInvalid(site)
    \/ ClipReturn

SpecClip == InitClip /\ [][NextClip]_vars

----------------------------------------------------------------------------
(* Claims about prod_inverter_clipping_filter *)

\* the documented default of each parameter, None for the optional ones
DocumentedDefault(fn, p) ==
    CASE fn = "geometric" /\ p = "slope_max" -> "0.2"
      [] fn = "geometric" /\ p = "tracking" -> "False"
      [] fn = "threshold" /\ p = "slope_max" -> "0.0035"
      [] fn = "threshold" /\ p = "power_min" -> "0.75"
      [] fn = "threshold" /\ p = "power_quantile" -> "0.995"
      [] fn = "levels" /\ p = "window" -> "4"
      [] fn = "levels" /\ p = "fraction_in_window" -> "0.75"
      [] fn = "levels" /\ p = "rtol" -> "0.005"
      [] fn = "levels" /\ p = "levels" -> "2"
      [] OTHER -> "None"

\* C7: a call with a model outside {geometric, threshold, levels} ends in an
\* error and returns no data frame, whatever the metadata lists.
C7_UnknownModelFails ==
    model \notin {"geometric", "threshold", "levels"} => result # "returned"

\* C10: every parameter handed to the clipping detector is the value the
\* caller supplied whenever one was supplied (zero and false included), and
\* the documented default only when the caller left it unspecified.
C10_SuppliedValuePassed ==
    \A c \in calls :
        \A p \in DOMAIN c.args :
            c.args[p] = IF kwargs[p] # Unset THEN kwargs[p]
                        ELSE DocumentedDefault(c.fn, p)

====
